---- MODULE Spec2Model ----
(***************************************************************************)
(* Loan-origination orchestrator: the chat front door (api.py), the Master *)
(* graph (master.py), the four worker graphs (workerAgents/*.py) and the   *)
(* tool service (MCPServer/server.py).                                     *)
(*                                                                         *)
(* Amounts are in rupees.  Interest rates are whole percents per year.     *)
(* Python values that may be None or missing are modelled by a sentinel of *)
(* the field's own type: NoneInt for numbers, "None" / "missing" for       *)
(* strings.                                                                *)
(***************************************************************************)
EXTENDS Integers, Sequences, FiniteSets, TLC

\* ------------------------------------------------------------------ bounds
\* Number of chat requests admitted over a run of the front door.
MaxRequests == 2
\* Number of free choices the environment makes over a run: an answer an
\* oracle picks at will, an answer an oracle gives from now on whenever it is
\* asked, a call that fails.  Without a free choice every call goes through
\* and the oracle stops (no worker, no tool call, the standing offer).
MaxOracleSwitches == 2

\* ------------------------------------------------------- program constants
\* Python None held in an Optional[int] / Optional[float] field.
NoneInt == -1
\* config={"recursion_limit": 20}
RecursionLimit == 20
\* if score < 700
MinCreditScore == 700

\* --------------------------------------------------------------- customers
CustomerIds ==
  {"CUST001", "CUST002", "CUST003", "CUST004", "CUST005",
   "CUST006", "CUST007", "CUST008", "CUST009", "CUST010"}

Cust(id, phone, limit, salary, score) ==
  [customer_id |-> id, phone |-> phone, pre_approved_limit |-> limit,
   salary_monthly |-> salary, credit_score |-> score]

\* The name, age, city and email columns are read by no code and left out.
CUSTOMERS ==
  [id \in CustomerIds |->
     CASE id = "CUST001" -> Cust(id, "9810000001", 300000, 60000, 745)
       [] id = "CUST002" -> Cust(id, "9810000002", 200000, 45000, 712)
       [] id = "CUST003" -> Cust(id, "9810000003", 400000, 85000, 780)
       [] id = "CUST004" -> Cust(id, "9810000004", 150000, 30000, 690)
       [] id = "CUST005" -> Cust(id, "9810000005", 250000, 52000, 710)
       [] id = "CUST006" -> Cust(id, "9810000006", 350000, 70000, 760)
       [] id = "CUST007" -> Cust(id, "9810000007", 180000, 40000, 695)
       [] id = "CUST008" -> Cust(id, "9810000008", 320000, 65000, 735)
       [] id = "CUST009" -> Cust(id, "9810000009", 280000, 48000, 725)
       [] OTHER          -> Cust(id, "9810000010", 500000, 90000, 790)]

\* ------------------------------------------------------------ tool payloads
\* The "result" mapping of a tool reply; a key the tool did not send is
\* "missing" (NoneInt for numbers).
NoResult ==
  [phone_verified |-> "missing", address_verified |-> "missing",
   decision |-> "missing", reason |-> "missing", emi |-> NoneInt,
   credit_score |-> NoneInt, resource |-> "missing", path |-> "missing",
   sanction_letter_resource |-> "missing", sanction_letter_path |-> "missing",
   salary_slip_resource |-> "missing"]

\* A Python value as json.loads returns it or as a node builds it:
\*   kind      "dict" or "other" (a list, string, number or null);
\*   raw       the text wrapped by {"raw": text}, "missing" when no such key;
\*   status    the "status" key;
\*   res_kind  what the "result" key holds: "dict", "other" or "missing";
\*   result    the mapping under "result" when res_kind = "dict".
Doc(kind, raw, status, res_kind, result) ==
  [kind |-> kind, raw |-> raw, status |-> status, res_kind |-> res_kind,
   result |-> result]

EmptyDict == Doc("dict", "missing", "missing", "missing", NoResult)
Ok(result) == Doc("dict", "missing", "ok", "dict", result)

\* A text: either the JSON serialisation of a value, or text that is no JSON.
JsonDumps(doc) == [fmt |-> "json", doc |-> doc, text |-> "json"]
PlainText(t) == [fmt |-> "plain", doc |-> EmptyDict, text |-> t]

\* json.loads: the value a JSON text denotes; it raises on any other text.
JsonLoadsRaises(text) == text.fmt # "json"
JsonLoads(text) == text.doc

\* ToolError raised by a tool, as the client receives it: an error text.
ToolError(detail) == PlainText(detail)

\* ------------------------------------------------------------ tool service
\* One proposed tool call: the tool's name and its arguments.  Arguments a
\* tool does not take are ignored by it.
ToolCall(name, cid, phone, amount, tenure, rate, salary, slip, content) ==
  [name |-> name, customer_id |-> cid, phone |-> phone,
   requested_amount |-> amount, tenure_months |-> tenure,
   annual_rate |-> rate, salary_provided |-> salary,
   salary_slip_resource |-> slip, content_base64 |-> content]

RECURSIVE Pow(_, _)
Pow(b, n) == IF n = 0 THEN 1 ELSE b * Pow(b, n - 1)

\* compute_emi.  r = annual_rate / 12 / 100 is k / 100 for k = annual_rate / 12,
\* so (1 + r) ** n = A / B with A = (100 + k) ** n and B = 100 ** n, and
\* num / den = P * k * A / (100 * (A - B)).  Amounts are scaled to thousands,
\* which leaves every comparison of an EMI with a salary as it is.
MonthlyPct(annual_rate) == annual_rate \div 12
EmiA(annual_rate, n_months) == Pow(100 + MonthlyPct(annual_rate), n_months)
EmiB(n_months) == Pow(100, n_months)

\* ZeroDivisionError: P / n_months with n_months = 0, or den = 0.
compute_emi_raises(P, annual_rate, n_months) == n_months = 0

\* The EMI, rounded down to a rupee.
compute_emi(P, annual_rate, n_months) ==
  IF MonthlyPct(annual_rate) = 0
    THEN P \div n_months
    ELSE (10 * (P \div 1000) * MonthlyPct(annual_rate) * EmiA(annual_rate, n_months))
           \div (EmiA(annual_rate, n_months) - EmiB(n_months))

\* emi <= 0.5 * salary, decided exactly.
EmiWithinHalf(P, annual_rate, n_months, salary) ==
  IF MonthlyPct(annual_rate) = 0
    THEN 2 * (P \div 1000) <= (salary \div 1000) * n_months
    ELSE (P \div 1000) * MonthlyPct(annual_rate) * EmiA(annual_rate, n_months)
           <= 50 * (salary \div 1000) * (EmiA(annual_rate, n_months) - EmiB(n_months))

NotFound(cid) == ToolError("customer not found")

verify_kyc(c) ==
  IF c.customer_id \notin CustomerIds THEN NotFound(c.customer_id)
  ELSE JsonDumps(Ok([NoResult EXCEPT
         !.phone_verified =
            IF CUSTOMERS[c.customer_id].phone = c.phone THEN "true" ELSE "false",
         !.address_verified = "true"]))

get_credit_score(c) ==
  IF c.customer_id \notin CustomerIds THEN NotFound(c.customer_id)
  ELSE JsonDumps(Ok([NoResult EXCEPT
         !.credit_score = CUSTOMERS[c.customer_id].credit_score]))

\* The salary_monthly, pre_limit and requested keys of a reject are read by
\* no code and left out.
Decision(decision, reason, emi, score) ==
  JsonDumps(Ok([NoResult EXCEPT
    !.decision = decision, !.reason = reason, !.emi = emi,
    !.credit_score = score]))

\* The comparison turned round.
ScoreTooHigh(score) == score > MinCreditScore

\* if score < 700
ScoreTooLow(score) == score < MinCreditScore

\* The amount must stay under the limit.
UnderLimit(requested, pre_limit) == requested < pre_limit

\* if requested <= pre_limit
WithinLimit(requested, pre_limit) == requested <= pre_limit

\* The slip is never asked for.
SalaryEvidenceAssumed(c) == FALSE

\* Only a stated salary counts as evidence.
NoSalaryGiven(c) == c.salary_provided = NoneInt

\* if not salary_slip_resource and salary_provided is None
NoSalaryEvidence(c) ==
  /\ c.salary_slip_resource \in {"None", ""}
  /\ c.salary_provided = NoneInt

underwrite_loan(c) ==
  IF c.customer_id \notin CustomerIds THEN NotFound(c.customer_id)
  ELSE
    LET cust      == CUSTOMERS[c.customer_id]
        score     == cust.credit_score
        pre_limit == cust.pre_approved_limit
        requested == c.requested_amount
        tenure    == c.tenure_months
        salary    == IF c.salary_provided # NoneInt THEN c.salary_provided
                     ELSE cust.salary_monthly
        raises    == compute_emi_raises(requested, c.annual_rate, tenure)
        emi       == compute_emi(requested, c.annual_rate, tenure)
    IN
    IF ScoreTooLow(score)
      THEN Decision("reject", "credit_score_below_700", NoneInt, score)
    ELSE IF WithinLimit(requested, pre_limit)
      THEN IF raises THEN ToolError("division by zero")
           ELSE Decision("approve", "within_pre_approved_limit", emi, NoneInt)
    ELSE IF requested <= 2 * pre_limit
      THEN IF NoSalaryEvidence(c)
             THEN Decision("require_salary_slip", "salary_slip_required", NoneInt, NoneInt)
           ELSE IF raises THEN ToolError("division by zero")
           ELSE IF EmiWithinHalf(requested, c.annual_rate, tenure, salary)
             THEN Decision("approve", "emi_within_50pct_salary", emi, NoneInt)
           ELSE Decision("reject", "emi_exceeds_50pct_salary", emi, NoneInt)
    ELSE Decision("reject", "amount_exceeds_2x_pre_approved", NoneInt, NoneInt)

\* The stored name carries a fresh uuid; one name stands for all of them.
upload_salary_slip(c) ==
  IF c.customer_id \notin CustomerIds THEN NotFound(c.customer_id)
  ELSE IF c.content_base64 # "valid" THEN ToolError("invalid base64 content")
  ELSE JsonDumps(Ok([NoResult EXCEPT
         !.resource = "resource://salary_slip", !.path = "storage/salary_slip"]))

generate_sanction_letter(c) ==
  IF c.customer_id \notin CustomerIds THEN NotFound(c.customer_id)
  ELSE JsonDumps(Ok([NoResult EXCEPT
         !.resource = "resource://sanction_letter",
         !.path = "storage/sanction_letter"]))

\* The tool service: the text a call of the named tool sends back.
CallTool(c) ==
  CASE c.name = "verify_kyc"               -> verify_kyc(c)
    [] c.name = "get_credit_score"         -> get_credit_score(c)
    [] c.name = "underwrite_loan"          -> underwrite_loan(c)
    [] c.name = "upload_salary_slip"       -> upload_salary_slip(c)
    [] c.name = "generate_sanction_letter" -> generate_sanction_letter(c)
    [] OTHER                               -> ToolError("unknown tool")

\* ---------------------------------------------------------------- messages
\* HumanMessage, AIMessage and ToolMessage.  id is the identifier add_messages
\* merges on; name is the tool a ToolMessage answers ("missing" otherwise).
Msg(type, id, content, tool_calls, name) ==
  [type |-> type, id |-> id, content |-> content, tool_calls |-> tool_calls,
   name |-> name]

HumanMessage(id, text) == Msg("human", id, PlainText(text), <<>>, "missing")
AIMessage(id, text, tool_calls) == Msg("ai", id, PlainText(text), tool_calls, "missing")
ToolMessage(id, content, name) == Msg("tool", id, content, <<>>, name)

IdsOf(msgs) == {msgs[i].id : i \in 1..Len(msgs)}
FreshId(msgs) == Len(msgs) + 1

\* add_messages, the reducer of every message channel: a message whose id is
\* already in the channel replaces the one stored, any other is appended.
RECURSIVE add_messages(_, _)
add_messages(left, right) ==
  IF right = <<>> THEN left
  ELSE LET m == Head(right)
           merged == IF m.id \in IdsOf(left)
                       THEN [i \in 1..Len(left) |->
                               IF left[i].id = m.id THEN m ELSE left[i]]
                       ELSE Append(left, m)
       IN add_messages(merged, Tail(right))

\* next((m for m in reversed(messages) if isinstance(m, ToolMessage)), None):
\* the position of the last ToolMessage, 0 for None.
LastToolIndex(msgs) ==
  LET at == {i \in 1..Len(msgs) : msgs[i].type = "tool"}
  IN IF at = {} THEN 0 ELSE CHOOSE i \in at : \A j \in at : j <= i

\* ------------------------------------------------------------ session state
NoCustomer == Cust("missing", "missing", NoneInt, NoneInt, NoneInt)

\* customer_info: kind is "missing", "customer" (the tool's result mapping),
\* "doc" (the whole reply, when it has no result mapping) or "error".
CustomerInfo(kind, cust) == [kind |-> kind, cust |-> cust]

\* negotiated_offer: kind is "missing", "empty" ({}) or "offer".
Offer(kind, cid, amount, tenure, rate) ==
  [kind |-> kind, customer_id |-> cid, approved_amount |-> amount,
   tenure_months |-> tenure, interest_rate |-> rate]
EmptyOffer == Offer("empty", "missing", NoneInt, NoneInt, NoneInt)
MissingOffer == Offer("missing", "missing", NoneInt, NoneInt, NoneInt)

MissingDoc == Doc("missing", "missing", "missing", "missing", NoResult)

\* credit_score: kind is "missing", "int", "doc" or "error".
CreditScore(kind, v) == [kind |-> kind, v |-> v]

\* underwriting_input; per line 140 of the worker its annual_rate is the
\* customer's salary_monthly.
UnderwritingInput(kind, cid, amount, tenure, rate) ==
  [kind |-> kind, customer_id |-> cid, requested_amount |-> amount,
   tenure_months |-> tenure, annual_rate |-> rate]
MissingInput == UnderwritingInput("missing", "missing", NoneInt, NoneInt, NoneInt)

\* underwriting_result: kind is "missing", "dict" or "None".
UnderwritingResult(kind, result) == [kind |-> kind, result |-> result]

\* OrchestratorState with no key set.
NoState ==
  [customer_id |-> "missing", flow_stage |-> "missing", next_worker |-> "missing",
   messages |-> <<>>, customer_info |-> CustomerInfo("missing", NoCustomer),
   requested_amount |-> NoneInt, preferred_tenure_months |-> NoneInt,
   max_interest_rate |-> NoneInt, negotiated_offer |-> MissingOffer,
   kyc_result |-> MissingDoc, kyc_status |-> "missing",
   credit_score |-> CreditScore("missing", NoneInt),
   salary_slip_resource |-> "missing", underwriting_input |-> MissingInput,
   underwriting_result |-> UnderwritingResult("missing", NoResult),
   underwriting_status |-> "missing",
   sanction_letter_resource |-> "missing", sanction_letter_path |-> "missing",
   sanction_letter_status |-> "missing",
   sales_messages |-> <<>>, verification_messages |-> <<>>,
   underwriting_messages |-> <<>>, sanction_messages |-> <<>>]

\* The state chat_endpoint stores for a session id it has not seen.
NewSession ==
  [NoState EXCEPT !.flow_stage = "start", !.negotiated_offer = EmptyOffer,
                  !.kyc_status = "pending", !.underwriting_status = "pending"]

\* ----------------------------------------------------------------- master
\* The Router object the decision oracle returns.
Router(next_worker, cid, amount, tenure, rate) ==
  [response_to_user |-> "reply", next_worker |-> next_worker,
   update_customer_id |-> cid, update_requested_amount |-> amount,
   update_preferred_tenure |-> tenure, update_max_interest |-> rate]

Workers == {"sales", "verification", "underwriting", "sanction"}

\* Python truth of an optional string and of an optional number.
TruthyStr(x) == x \notin {"None", "", "missing"}
TruthyInt(x) == x # NoneInt /\ x # 0

\* flow_stage as lines 116-119 set it from next_worker.
StageOf(next_worker, stage) ==
  CASE next_worker = "sales" -> "negotiation"
    [] next_worker \in {"verification", "underwriting", "sanction"} -> next_worker
    [] OTHER -> stage

\* The offer is left as it stands.
OfferKept(response, offer) == offer

\* if response.update_max_interest: ... updates["negotiated_offer"] = {}
OfferAfterRate(response, offer) ==
  IF TruthyInt(response.update_max_interest) THEN EmptyOffer ELSE offer

\* The decision is taken and nothing is said to the user.
master_llm_node_silent(state, response) ==
  [state EXCEPT !.next_worker = response.next_worker]

\* master_llm_node, with its updates merged into the state.
master_llm_node(state, response) ==
  [state EXCEPT
     !.messages = add_messages(@,
        <<AIMessage(FreshId(@), response.response_to_user, <<>>)>>),
     !.next_worker = response.next_worker,
     !.customer_id = IF TruthyStr(response.update_customer_id)
                       THEN response.update_customer_id ELSE @,
     !.requested_amount = IF TruthyInt(response.update_requested_amount)
                            THEN response.update_requested_amount ELSE @,
     !.preferred_tenure_months = IF TruthyInt(response.update_preferred_tenure)
                                   THEN response.update_preferred_tenure ELSE @,
     !.max_interest_rate = IF TruthyInt(response.update_max_interest)
                             THEN response.update_max_interest ELSE @,
     !.negotiated_offer = OfferAfterRate(response, @),
     !.flow_stage = StageOf(response.next_worker,
                      IF TruthyStr(response.update_customer_id)
                        THEN "negotiation" ELSE @)]

\* Every worker named is answered by the first worker.
route_first(state) ==
  IF state.next_worker \in Workers THEN "sales" ELSE "END"

\* route_next: the node that runs after master, "END" to return.
route_next(state) ==
  IF state.next_worker \in Workers THEN state.next_worker ELSE "END"

\* ------------------------------------------------------------------ workers
\* The keys of each worker's state schema: what the worker graph receives
\* from the Master's state and what it hands back.
SchemaKeys(worker) ==
  CASE worker = "sales" ->
         {"customer_id", "requested_amount", "preferred_tenure_months",
          "max_interest_rate", "customer_info", "negotiated_offer"}
    [] worker = "verification" ->
         {"customer_id", "customer_info", "kyc_result", "kyc_status", "messages"}
    [] worker = "underwriting" ->
         {"customer_id", "customer_info", "negotiated_offer", "credit_score",
          "salary_slip_resource", "underwriting_input", "underwriting_result",
          "underwriting_status", "messages"}
    [] OTHER ->
         {"customer_id", "underwriting_result", "underwriting_status",
          "negotiated_offer", "sanction_letter_resource", "sanction_letter_path",
          "sanction_letter_status", "messages"}

\* The input of a worker graph used as a node: the keys of its schema.
SubgraphInput(worker, state) ==
  [k \in DOMAIN state |-> IF k \in SchemaKeys(worker) THEN state[k] ELSE NoState[k]]

\* The worker graph's final state merged into the Master's state: message
\* channels through add_messages, every other key it holds overwritten.
SubgraphOutput(worker, state, wstate) ==
  [k \in DOMAIN state |->
     IF k \notin SchemaKeys(worker) \/ wstate[k] = NoState[k] THEN state[k]
     ELSE IF k = "messages" THEN add_messages(state[k], wstate[k])
     ELSE wstate[k]]

\* The first node of each worker graph.
EntryNode(worker) ==
  CASE worker = "sales" -> "fetch_customer_info"
    [] worker = "underwriting" -> "fetch_credit_score"
    [] OTHER -> "llm_node"

\* How a direct session.call_tool ends: "ok", or a transport failure.
Transports == {"ok", "ConnectError", "Timeout"}

\* --- sales.py
\* cid = str(state["customer_id"]) stands before the try.
fetch_customer_info_raises(state) == state.customer_id = "missing"

\* An error text is no JSON, so json.loads raises inside the try and the
\* generic handler stores the error marker.
fetch_customer_info(state, transport) ==
  IF transport = "ok" /\ state.customer_id \in CustomerIds
    THEN [state EXCEPT !.customer_info =
            CustomerInfo("customer", CUSTOMERS[state.customer_id])]
    ELSE [state EXCEPT !.customer_info = CustomerInfo("error", NoCustomer)]

\* state["customer_info"], state["requested_amount"], ... raise KeyError on a
\* key the state does not hold.
sales_llm_node_raises(state) ==
  \/ state.customer_info.kind = "missing"
  \/ state.requested_amount = NoneInt
  \/ state.preferred_tenure_months = NoneInt
  \/ state.max_interest_rate = NoneInt

sales_llm_node(state, offer) == [state EXCEPT !.negotiated_offer = offer]

\* --- the tool-call loop of verification.py, underwriting.py and sanction.py
llm_node_raises(state) == FALSE

\* llm_node: the oracle's reply, with the tool calls it proposes, is appended.
llm_node(state, tool_calls) ==
  [state EXCEPT !.messages =
     add_messages(@, <<AIMessage(FreshId(@), "", tool_calls)>>)]

\* The loop ends after the first reply, whatever it proposes.
tools_never(state) == "final_logic"

\* tools_condition: "tools" when the last message proposes a tool call.
tools_condition(state) ==
  IF /\ state.messages # <<>>
     /\ state.messages[Len(state.messages)].type = "ai"
     /\ state.messages[Len(state.messages)].tool_calls # <<>>
    THEN "tool_node" ELSE "final_logic"

\* wrapped_tool under ToolNode: the text the tool service sends, or the error
\* text ToolNode makes of a failed call.
ToolText(call, transport) ==
  IF transport = "ok" THEN CallTool(call) ELSE PlainText("Error: transport")

\* ToolNode: one ToolMessage per proposed call, in the order proposed.
RECURSIVE ToolMessages(_, _, _)
ToolMessages(calls, transport, first_id) ==
  IF calls = <<>> THEN <<>>
  ELSE <<ToolMessage(first_id, ToolText(Head(calls), transport), Head(calls).name)>>
         \o ToolMessages(Tail(calls), transport, first_id + 1)

tool_node(state, transport) ==
  [state EXCEPT !.messages =
     add_messages(@, ToolMessages(@[Len(@)].tool_calls, transport, FreshId(@)))]

\* The value a final node parses out of the last ToolMessage: json.loads of
\* its content, or the {"raw": content} wrapper when that raises.
ParsedTool(msg) ==
  IF JsonLoadsRaises(msg.content)
    THEN Doc("dict", msg.content.text, "missing", "missing", NoResult)
    ELSE JsonLoads(msg.content)

\* dict.get of a result key: None for a key the mapping does not hold.
Get(x) == IF x = "missing" THEN "None" ELSE x

\* --- verification.py
\* result = kyc_result.get("result"); result.get(...): AttributeError unless
\* the parsed value is a mapping whose "result" is a mapping.
verification_final_raises(state) ==
  LET i == LastToolIndex(state.messages)
  IN /\ i # 0
     /\ \/ ParsedTool(state.messages[i]).kind # "dict"
        \/ ParsedTool(state.messages[i]).res_kind # "dict"

\* One flag is enough.
KycStatusEither(result) ==
  IF result.phone_verified = "true" \/ result.address_verified = "true"
    THEN "verified" ELSE "failed"

\* verified when both flags are true, pending when one is, failed otherwise.
KycStatus(result) ==
  LET p_verified == result.phone_verified = "true"
      a_verified == result.address_verified = "true"
  IN IF p_verified /\ a_verified THEN "verified"
     ELSE IF p_verified \/ a_verified THEN "pending"
     ELSE "failed"

verification_final_status_node(state) ==
  LET i == LastToolIndex(state.messages)
  IN IF i = 0
       THEN [state EXCEPT !.kyc_status = "failed", !.kyc_result = EmptyDict]
       ELSE [state EXCEPT
               !.kyc_status = KycStatus(ParsedTool(state.messages[i]).result),
               !.kyc_result = ParsedTool(state.messages[i])]

\* --- sanction.py
\* sanction_result.get("result", {}): AttributeError on a value that is no
\* mapping.
sanction_final_raises(state) ==
  LET i == LastToolIndex(state.messages)
  IN i # 0 /\ ParsedTool(state.messages[i]).kind # "dict"

\* generated when both keys are present and not None.
SanctionStatus(resource, path) ==
  IF resource # "None" /\ path # "None" THEN "generated" ELSE "failed"

sanction_final_status_node(state) ==
  LET i == LastToolIndex(state.messages)
      doc == ParsedTool(state.messages[i])
      result == IF doc.res_kind = "dict" THEN doc.result ELSE NoResult
      resource == Get(result.sanction_letter_resource)
      path == Get(result.sanction_letter_path)
  IN IF i = 0 THEN state
     ELSE [state EXCEPT !.sanction_letter_resource = resource,
                        !.sanction_letter_path = path,
                        !.sanction_letter_status = SanctionStatus(resource, path)]

\* --- underwriting.py
fetch_credit_score_raises(state) == state.customer_id = "missing"

\* A failed call leaves no mark.
fetch_credit_score_unmarked(state, transport) == state

fetch_credit_score(state, transport) ==
  IF transport = "ok" /\ state.customer_id \in CustomerIds
    THEN [state EXCEPT !.credit_score =
            CreditScore("int", CUSTOMERS[state.customer_id].credit_score)]
    ELSE [state EXCEPT !.credit_score = CreditScore("error", NoneInt)]

\* underwrite is {} without a ToolMessage, so result is None and result.get
\* raises; so it does on a wrapped or result-less reply.  The audit record
\* reads state["customer_id"], state["negotiated_offer"][...] and
\* state["customer_info"]["salary_monthly"].
underwriting_final_raises(state) ==
  LET i == LastToolIndex(state.messages)
  IN \/ i = 0
     \/ ParsedTool(state.messages[i]).kind # "dict"
     \/ ParsedTool(state.messages[i]).res_kind # "dict"
     \/ state.customer_id = "missing"
     \/ state.negotiated_offer.kind # "offer"
     \/ state.customer_info.kind # "customer"

underwriting_final_status_node(state) ==
  LET result == ParsedTool(state.messages[LastToolIndex(state.messages)]).result
  IN [state EXCEPT
        !.salary_slip_resource = Get(result.salary_slip_resource),
        !.underwriting_status = Get(result.decision),
        !.underwriting_input =
           UnderwritingInput("dict", state.customer_id,
             state.negotiated_offer.approved_amount,
             state.negotiated_offer.tenure_months,
             state.customer_info.cust.salary_monthly),
        !.underwriting_result = UnderwritingResult("dict", result)]

\* The final node of a worker, by the worker's name.
final_raises(worker, state) ==
  CASE worker = "verification" -> verification_final_raises(state)
    [] worker = "underwriting" -> underwriting_final_raises(state)
    [] OTHER -> sanction_final_raises(state)

final_status_node(worker, state) ==
  CASE worker = "verification" -> verification_final_status_node(state)
    [] worker = "underwriting" -> underwriting_final_status_node(state)
    [] OTHER -> sanction_final_status_node(state)

\* ------------------------------------------------------- inputs (bounded)
SessionIds == {"s1", "s2"}
ReqIds == 1..MaxRequests

\* The text of the user message of request r.
UserTexts == <<"user 1", "user 2", "user 3", "user 4">>
UserText(r) == UserTexts[r]

\* What the Master's oracle may extract in one reply: nothing, or all four
\* inputs; and in the wider set also id and amount alone, a new rate alone, a
\* zero rate.
CoreExtractions ==
  { <<"None", NoneInt, NoneInt, NoneInt>>,
    <<"CUST001", 250000, 2, 12>> }

Extractions ==
  CoreExtractions \cup
  { <<"CUST001", 250000, NoneInt, NoneInt>>,
    <<"None", NoneInt, NoneInt, 24>>,
    <<"None", NoneInt, NoneInt, 0>> }

NextWorkers == Workers \cup {"none"}

NoDecision == Router("none", "None", NoneInt, NoneInt, NoneInt)

Decisions(extractions) ==
  { Router(w, e[1], e[2], e[3], e[4]) : w \in NextWorkers, e \in extractions }

CoreDecisions ==
  {NoDecision} \cup Decisions({e \in CoreExtractions : e[1] # "None"})
MasterDecisions == Decisions(Extractions)

\* The offers the Negotiation oracle may return.
Offers == { Offer("offer", "CUST001", 250000, 2, 12),
            Offer("offer", "CUST001", 400000, 2, 24) }

Call(name, cid) ==
  ToolCall(name, cid, "missing", NoneInt, NoneInt, NoneInt, NoneInt, "None", "missing")

\* The tool calls a worker's oracle may propose.
ToolCalls ==
  { [Call("verify_kyc", "CUST001") EXCEPT !.phone = "9810000001"],
    [Call("verify_kyc", "CUST001") EXCEPT !.phone = ""],
    Call("verify_kyc", "CUST999"),
    [Call("underwrite_loan", "CUST001") EXCEPT
       !.requested_amount = 250000, !.tenure_months = 2, !.annual_rate = 12],
    [Call("underwrite_loan", "CUST004") EXCEPT
       !.requested_amount = 100000, !.tenure_months = 2, !.annual_rate = 12],
    [Call("underwrite_loan", "CUST001") EXCEPT
       !.requested_amount = 400000, !.tenure_months = 2, !.annual_rate = 24],
    [Call("underwrite_loan", "CUST001") EXCEPT
       !.requested_amount = 400000, !.tenure_months = 2, !.annual_rate = 24,
       !.salary_slip_resource = "resource://salary_slip"],
    [Call("upload_salary_slip", "CUST001") EXCEPT !.content_base64 = "valid"],
    [Call("generate_sanction_letter", "CUST001") EXCEPT
       !.requested_amount = 250000, !.tenure_months = 2, !.annual_rate = 12] }

\* The arguments of underwrite_loan: amounts at, under and over the customers'
\* limits and over twice the limits; a zero tenure; a zero rate; a salary that
\* is absent, zero, small or large; a slip that is absent, empty or given.
Amounts == {100000, 150000, 200000, 300000, 400000, 600000, 1200000}
Tenures == {0, 1, 2}
Rates == {0, 12, 24}
Salaries == {NoneInt, 0, 30000, 200000}
Slips == {"None", "", "resource://salary_slip"}

UnderwriteCalls ==
  { [Call("underwrite_loan", cid) EXCEPT
       !.requested_amount = amount, !.tenure_months = tenure,
       !.annual_rate = rate, !.salary_provided = salary,
       !.salary_slip_resource = slip] :
    cid \in CustomerIds \cup {"CUST999"}, amount \in Amounts, tenure \in Tenures,
    rate \in Rates, salary \in Salaries, slip \in Slips }

\* Every call the tool service is checked on.
AllCalls ==
  UnderwriteCalls \cup ToolCalls
    \cup { Call("get_credit_score", cid) : cid \in {"CUST001", "CUST999"} }
    \cup { Call("upload_salary_slip", "CUST001"), Call("no_such_tool", "CUST001") }

\* The worker whose oracle is told to call the tool.
WorkerOf(name) ==
  CASE name = "verify_kyc" -> "verification"
    [] name = "generate_sanction_letter" -> "sanction"
    [] OTHER -> "underwriting"

\* The "result" mappings a tool reply may carry: the two KYC flags true,
\* false or absent; a decision; the keys the letter tool sends; the keys the
\* Sanction worker reads.
ToolResults ==
  { [NoResult EXCEPT !.phone_verified = p, !.address_verified = a] :
      p \in {"true", "false", "missing"}, a \in {"true", "false", "missing"} }
  \cup { [NoResult EXCEPT !.decision = d, !.reason = "reason"] :
           d \in {"approve", "reject", "require_salary_slip"} }
  \cup { [NoResult EXCEPT !.resource = "resource://sanction_letter",
                          !.path = "storage/sanction_letter"],
         [NoResult EXCEPT !.sanction_letter_resource = "resource://sanction_letter",
                          !.sanction_letter_path = "storage/sanction_letter"],
         [NoResult EXCEPT !.sanction_letter_resource = "resource://sanction_letter"] }

\* The texts a ToolMessage may hold: a reply with a result mapping, an error
\* text, JSON that is no mapping, a mapping with no result, a mapping whose
\* result is no mapping.
ToolTexts ==
  { JsonDumps(Ok(result)) : result \in ToolResults }
  \cup { ToolError("customer not found"),
         JsonDumps(Doc("other", "missing", "missing", "missing", NoResult)),
         JsonDumps(EmptyDict),
         JsonDumps(Doc("dict", "missing", "ok", "other", NoResult)) }

\* The tool each tool-loop worker is told to call.
ToolOf(worker) ==
  CASE worker = "verification" -> "verify_kyc"
    [] worker = "sanction" -> "generate_sanction_letter"
    [] OTHER -> "underwrite_loan"

\* A narrow set of replies: no call, a KYC check, an underwriting call.
CoreReplies ==
  {<<>>} \cup { <<c>> : c \in {x \in ToolCalls :
                   /\ x.customer_id = "CUST001"
                   /\ \/ x.name = "verify_kyc" /\ x.phone # ""
                      \/ x.name = "underwrite_loan" /\ x.requested_amount = 250000} }

\* The replies of a worker's oracle: the tool calls one reply proposes.
Replies ==
  {<<>>} \cup { <<c>> : c \in ToolCalls }
        \cup { <<c, c>> : c \in {x \in ToolCalls : x.name = "verify_kyc" /\ x.phone = ""} }

\* What the environment of a run may do: the Master's decisions, the
\* Negotiation offers, the tool-loop replies, whether an oracle may take to
\* giving one answer from now on, and how a call of the tool service may fail.
Oracles(decisions, offers, replies, tails, failures) ==
  [decisions |-> decisions, offers |-> offers, replies |-> replies,
   tails |-> tails, failures |-> failures]

CoreOracles ==
  Oracles(CoreDecisions, {CHOOSE o \in Offers : o.approved_amount = 250000},
          CoreReplies, {"free"}, {"Timeout"})
SeqOracles == Oracles(MasterDecisions, Offers, CoreReplies, {"free"}, {"Timeout"})
LoopOracles ==
  Oracles(CoreDecisions, {CHOOSE o \in Offers : o.approved_amount = 250000},
          CoreReplies, {"free", "repeat", "alternate"}, Transports \ {"ok"})
AllOracles ==
  Oracles(MasterDecisions, Offers, Replies, {"free", "repeat"}, Transports \ {"ok"})

\* ------------------------------------------------------------------- state
VARIABLES
  app_state,      \* app_state["graph"]: TRUE once the graph is compiled
  session_store,  \* session id -> stored state, NoState for an unseen id
  req,            \* request id -> the chat request or worker run in flight
  budget          \* free choices the environment has left

vars == <<app_state, session_store, req, budget>>

\* A request slot nobody has used.
IdleReq ==
  [pc |-> "idle", sid |-> "s1",
   node |-> "none", step |-> 0, state |-> NoState,
   worker |-> "none", wnode |-> "none", wstep |-> 0, wstate |-> NoState,
   status |-> "none", error |-> "none", raised_in |-> "none",
   response |-> "missing",
   tail |-> "free",
   last_decision |-> NoDecision, last_reply |-> <<>>,
   last_offer |-> CHOOSE o \in Offers : o.approved_amount = 250000,
   tool_runs |-> 0, finals |-> 0, renegotiated |-> FALSE, decides |-> 0]

Upd(r, f) == req' = [req EXCEPT ![r] = f]

\* A chat request answered: its locals are gone, what it answered is kept.
Answered(q, status, error, where, response) ==
  [IdleReq EXCEPT !.pc = "done", !.sid = q.sid, !.status = status,
                  !.error = error, !.raised_in = where, !.response = response]

\* The exception is swallowed and the caller is answered as on success.
RaiseUnseen(q, error, where) == Answered(q, "200", "none", "none", "missing")

\* An exception leaves the graph: chat_endpoint answers 500 and stores
\* nothing.
Raise(q, error, where) == Answered(q, "500", error, where, "missing")

\* ------------------------------------------------------- the decision oracle
\* <<answer, budget left, tail, standing answer>> for each answer open to an
\* oracle: the stop answer; or, for one free choice, any answer once, or any
\* answer from now on ("repeat": every oracle of the request then gives its
\* standing answer whenever asked; "alternate": the same, but the Master's
\* oracle names sales and verification in turn).
OracleAnswers(q, o, free, standing, stop) ==
  IF q.tail # "free" THEN { <<standing, budget, q.tail, standing>> }
  ELSE {<<stop, budget, "free", standing>>} \cup
       (IF budget > 0
          THEN { <<a, budget - 1, t, IF t # "free" THEN a ELSE standing>> :
                   a \in free \ {stop}, t \in o.tails }
          ELSE {})

\* How a call of the tool service ends: "ok" always may, a failure is one of
\* the environment's free choices.  <<outcome, budget left>>.
TransportOutcomes(q, failures) ==
  {<<"ok", budget>>} \cup
  (IF budget > 0 THEN { <<f, budget - 1>> : f \in failures } ELSE {})

\* --------------------------------------------------------------- front door
\* Requests are numbered in the order they arrive.
Arrives(r) ==
  /\ req[r].pc = "idle"
  /\ \A p \in ReqIds : p < r => req[p].pc # "idle"

\* Every session id names the one state.
StoreShared(store, sid, state) == [s \in DOMAIN store |-> state]

\* The store keeps what it held.
StoreKept(store, sid, state) == store

\* session_store[request.session_id] = ...
Store(store, sid, state) == [store EXCEPT ![sid] = state]

\* current_state["messages"].append(HumanMessage(content=...))
AppendUser(current, text) ==
  [current EXCEPT !.messages = Append(@, HumanMessage(FreshId(@), text))]

\* The state of session sid with the user's message appended in place.
WithUserMessage(store, sid, r) ==
  AppendUser(IF store[sid] = NoState THEN NewSession ELSE store[sid], UserText(r))

\* graph.ainvoke reads its input into the channels.
GraphInput(state) ==
  [state EXCEPT !.messages = add_messages(<<>>, @)]

\* chat_endpoint up to its await: the session is created if unseen, the user
\* message appended to the stored state, and the graph started on it.
ChatBegin(r, sid) ==
  /\ Arrives(r)
  /\ app_state.graph
  /\ session_store' = Store(session_store, sid, WithUserMessage(session_store, sid, r))
  /\ Upd(r, [req[r] EXCEPT
       !.pc = "running", !.sid = sid, !.node = "master", !.step = 0,
       !.state = GraphInput(WithUserMessage(session_store, sid, r))])
  /\ UNCHANGED <<app_state, budget>>

\* The graph is looked up after the session has been created and the message
\* appended.
ChatRejectedLate(r, sid) ==
  /\ Arrives(r)
  /\ ~app_state.graph
  /\ session_store' = Store(session_store, sid, WithUserMessage(session_store, sid, r))
  /\ Upd(r, Answered([req[r] EXCEPT !.sid = sid], "503", "none", "none", "missing"))
  /\ UNCHANGED <<app_state, budget>>

\* chat_endpoint without a compiled graph: 503, nothing else happens.
ChatRejected(r, sid) ==
  /\ Arrives(r)
  /\ ~app_state.graph
  /\ Upd(r, Answered([req[r] EXCEPT !.sid = sid], "503", "none", "none", "missing"))
  /\ UNCHANGED <<app_state, session_store, budget>>

\* Of the transcript only the newest message is stored.
FinalStateNewest(q) == [q.state EXCEPT !.messages = <<@[Len(@)]>>]

\* The state chat_endpoint stores when the graph returns.
FinalState(q) == q.state

\* The reply text is taken from the first message of the transcript.
ResponseTextFirst(final_state) ==
  IF final_state.messages # <<>>
    THEN final_state.messages[1].content.text
    ELSE "I'm having trouble processing that."

\* The reply text: the content of the last message.
ResponseText(final_state) ==
  IF final_state.messages # <<>>
    THEN final_state.messages[Len(final_state.messages)].content.text
    ELSE "I'm having trouble processing that."

\* graph.ainvoke returned: the final state replaces the stored one.
Respond(r) ==
  /\ req[r].pc = "running"
  /\ req[r].node = "END"
  /\ session_store' = Store(session_store, req[r].sid, FinalState(req[r]))
  /\ Upd(r, Answered(req[r], "200", "none", "none",
                     ResponseText(FinalState(req[r]))))
  /\ UNCHANGED <<app_state, budget>>

\* ------------------------------------------------------------- master graph
\* No limit is configured and the engine's own limit of 25 steps applies.
OutOfStepsDefault(step) == step >= 25

\* The graph engine stops a run that needs more than recursion_limit steps.
OutOfSteps(step) == step >= RecursionLimit

MasterAt(r) ==
  /\ req[r].pc = "running"
  /\ req[r].worker = "none"

\* The decision the Master's oracle stands on next.
Turn(decision, tail) ==
  IF tail # "alternate" THEN decision
  ELSE [decision EXCEPT !.next_worker =
          CASE @ = "sales" -> "verification"
            [] @ = "verification" -> "sales"
            [] OTHER -> @]

\* The master node and the routing after it.
MasterNode(r, o) ==
  /\ MasterAt(r)
  /\ req[r].node = "master"
  /\ LET q == req[r] IN
     IF OutOfSteps(q.step)
       THEN Upd(r, Raise(q, "GraphRecursionError", "master")) /\ UNCHANGED budget
       ELSE \E a \in OracleAnswers(q, o, o.decisions, q.last_decision, NoDecision) :
              LET after == master_llm_node(q.state, a[1]) IN
              /\ Upd(r, [q EXCEPT
                   !.state = after, !.node = route_next(after), !.step = @ + 1,
                   !.tail = a[3], !.last_decision = Turn(a[4], a[3]),
                   !.decides = @ + 1,
                   !.renegotiated =
                      /\ q.state.negotiated_offer.kind = "offer"
                      /\ after.max_interest_rate # q.state.max_interest_rate])
              /\ budget' = a[2]
  /\ UNCHANGED <<app_state, session_store>>

\* The oracle does not answer (transport failure, no structured reply).
OracleFails(r) ==
  /\ req[r].pc = "running"
  /\ \/ MasterAt(r) /\ req[r].node = "master"
     \/ req[r].wnode = "llm_node"
  /\ budget > 0
  /\ budget' = budget - 1
  /\ Upd(r, Raise(req[r], "OracleError",
                  IF req[r].worker = "none" THEN "master" ELSE req[r].wnode))
  /\ UNCHANGED <<app_state, session_store>>

\* A worker graph is entered as one step of the master graph.
WorkerStart(r) ==
  /\ MasterAt(r)
  /\ req[r].node \in Workers
  /\ LET q == req[r] IN
     IF OutOfSteps(q.step)
       THEN Upd(r, Raise(q, "GraphRecursionError", q.node))
       ELSE Upd(r, [q EXCEPT
              !.worker = q.node, !.wnode = EntryNode(q.node), !.wstep = 0,
              !.wstate = SubgraphInput(q.node, q.state), !.step = @ + 1,
              !.tool_runs = 0, !.finals = 0])
  /\ UNCHANGED <<app_state, session_store, budget>>

\* A worker graph reached its END: back in the master graph its state is
\* merged and the edge to master taken.
WorkerEnd(r) ==
  /\ req[r].pc = "running"
  /\ req[r].wnode = "END"
  /\ LET q == req[r] IN
     Upd(r, [q EXCEPT
       !.state = SubgraphOutput(q.worker, q.state, q.wstate),
       !.node = "master", !.worker = "none", !.wnode = "none",
       !.wstate = NoState, !.wstep = 0])
  /\ UNCHANGED <<app_state, session_store, budget>>

\* ------------------------------------------------------------ worker graphs
WorkerAt(r, node) ==
  /\ req[r].pc = "running"
  /\ req[r].wnode = node

\* One node of a worker graph: the step bound, the node's exception, or the
\* node's update and the edge out of it.
WorkerStep(r, raises, error, wstate, next) ==
  LET q == req[r] IN
  IF OutOfSteps(q.wstep) THEN Raise(q, "GraphRecursionError", q.wnode)
  ELSE IF raises THEN Raise(q, error, q.wnode)
  ELSE [q EXCEPT !.wstate = wstate, !.wnode = next, !.wstep = @ + 1]

FetchCustomerInfo(r, o) ==
  /\ WorkerAt(r, "fetch_customer_info")
  /\ \E t \in TransportOutcomes(req[r], o.failures) :
       /\ Upd(r, WorkerStep(r, fetch_customer_info_raises(req[r].wstate), "KeyError",
                            fetch_customer_info(req[r].wstate, t[1]), "sales_llm_node"))
       /\ budget' = t[2]
  /\ UNCHANGED <<app_state, session_store>>

SalesLlmNode(r, o) ==
  /\ WorkerAt(r, "sales_llm_node")
  /\ \E a \in OracleAnswers(req[r], o, o.offers, req[r].last_offer, req[r].last_offer) :
       /\ Upd(r, [WorkerStep(r, sales_llm_node_raises(req[r].wstate), "KeyError",
                             sales_llm_node(req[r].wstate, a[1]), "END")
                  EXCEPT !.tail = a[3], !.last_offer = a[4]])
       /\ budget' = a[2]
  /\ UNCHANGED <<app_state, session_store>>

FetchCreditScore(r, o) ==
  /\ WorkerAt(r, "fetch_credit_score")
  /\ \E t \in TransportOutcomes(req[r], o.failures) :
       /\ Upd(r, WorkerStep(r, fetch_credit_score_raises(req[r].wstate), "KeyError",
                            fetch_credit_score(req[r].wstate, t[1]), "llm_node"))
       /\ budget' = t[2]
  /\ UNCHANGED <<app_state, session_store>>

LlmNode(r, o) ==
  /\ WorkerAt(r, "llm_node")
  /\ \E a \in OracleAnswers(req[r], o, o.replies, req[r].last_reply, <<>>) :
       LET after == llm_node(req[r].wstate, a[1]) IN
       /\ Upd(r, [WorkerStep(r, llm_node_raises(req[r].wstate), "KeyError",
                             after, tools_condition(after))
                  EXCEPT !.tail = a[3], !.last_reply = a[4]])
       /\ budget' = a[2]
  /\ UNCHANGED <<app_state, session_store>>

\* The number of tool calls the last message proposes.
Proposed(state) == Len(state.messages[Len(state.messages)].tool_calls)

ToolNode(r, o) ==
  /\ WorkerAt(r, "tool_node")
  /\ \E t \in TransportOutcomes(req[r], o.failures \cap {"Timeout"}) :
       /\ Upd(r, [WorkerStep(r, FALSE, "none",
                             tool_node(req[r].wstate, t[1]), "llm_node")
                  EXCEPT !.tool_runs = @ + Proposed(req[r].wstate)])
       /\ budget' = t[2]
  /\ UNCHANGED <<app_state, session_store>>

FinalLogic(r) ==
  /\ WorkerAt(r, "final_logic")
  /\ Upd(r, [WorkerStep(r, final_raises(req[r].worker, req[r].wstate),
                        "AttributeError",
                        final_status_node(req[r].worker, req[r].wstate), "END")
             EXCEPT !.finals = @ + 1])
  /\ UNCHANGED <<app_state, session_store, budget>>

\* ----------------------------------------------------------- specifications
Init ==
  /\ app_state \in {[graph |-> TRUE], [graph |-> FALSE]}
  /\ session_store = [s \in SessionIds |-> NoState]
  /\ req = [r \in ReqIds |-> IdleReq]
  /\ budget = MaxOracleSwitches

\* --------------------------------------------------- sessions in mid-flow
\* The Negotiation worker graph run to its end on the Master's state.
RunSales(state, offer) ==
  SubgraphOutput("sales", state,
    sales_llm_node(fetch_customer_info(SubgraphInput("sales", state), "ok"), offer))

\* A tool-loop worker graph run to its end on the Master's state, its oracle
\* proposing one call and then none.
RunLoop(worker, state, call) ==
  LET w0 == SubgraphInput(worker, state)
      w1 == IF worker = "underwriting" THEN fetch_credit_score(w0, "ok") ELSE w0
      w2 == llm_node(tool_node(llm_node(w1, <<call>>), "ok"), <<>>)
  IN SubgraphOutput(worker, state, final_status_node(worker, w2))

\* One chat turn that ends with 200: the user's message, the Master's first
\* decision, the worker it names, the Master's second decision (no worker).
TurnStart(stored, decision) ==
  master_llm_node(GraphInput(AppendUser(stored, "hello")), decision)
TurnEnd(state) == master_llm_node(state, NoDecision)

\* A session after a turn in which Negotiation returned an offer.
WithOffer ==
  TurnEnd(RunSales(TurnStart(NewSession, Router("sales", "CUST001", 250000, 2, 12)),
                   CHOOSE o \in Offers : o.approved_amount = 250000))

\* That session after a further turn in which Underwriting rejected.
Rejected ==
  TurnEnd(RunLoop("underwriting",
            TurnStart(WithOffer, Router("underwriting", "None", NoneInt, NoneInt, NoneInt)),
            CHOOSE c \in ToolCalls :
              c.name = "underwrite_loan" /\ c.customer_id = "CUST004"))

\* The Master's state when, on the stored session, it has named the worker.
Routed(stored, worker) ==
  TurnStart(stored, Router(worker, "CUST001", 250000, 2, 12))

\* A chat request whose Master named the worker, inside the worker graph at
\* node wnode.
InWorker(stored, worker, wnode, wstep, wstate) ==
  [IdleReq EXCEPT
     !.pc = "running", !.sid = "s1", !.node = worker, !.step = 2,
     !.state = Routed(stored, worker),
     !.worker = worker, !.wnode = wnode, !.wstep = wstep, !.wstate = wstate]

\* The nodes a worker graph has run when its messages stand as in wstate: one
\* per message it added, and the pre-fetch of Underwriting.
StepsTaken(stored, worker, wstate) ==
  Len(wstate.messages) - Len(Routed(stored, worker).messages)
    + (IF worker = "underwriting" THEN 1 ELSE 0)

\* The worker's state when its oracle is first asked.
Entered(stored, worker) ==
  LET w0 == SubgraphInput(worker, Routed(stored, worker))
  IN IF worker = "underwriting" THEN fetch_credit_score(w0, "ok") ELSE w0

\* The states a session is found in when a run starts: unseen, or in mid-flow.
StoredSessions == {NoState, WithOffer, Rejected}

\* One step of the graph run of request r, its oracles answering from the
\* sets of o.
GraphStep(r, o) ==
  \/ MasterNode(r, o)
  \/ OracleFails(r)
  \/ WorkerStart(r)
  \/ FetchCustomerInfo(r, o)
  \/ SalesLlmNode(r, o)
  \/ FetchCreditScore(r, o)
  \/ LlmNode(r, o)
  \/ ToolNode(r, o)
  \/ FinalLogic(r)
  \/ WorkerEnd(r)

\* The front door as the server runs it: requests overlap freely.
Next ==
  \E r \in ReqIds :
    \/ \E sid \in SessionIds : ChatRejected(r, sid)
    \/ \E sid \in SessionIds : ChatBegin(r, sid)
    \/ GraphStep(r, CoreOracles)
    \/ Respond(r)

Spec == Init /\ [][Next]_vars

\* The front door used by one client at a time: a request is sent when the
\* one before it has been answered.  Session s1 may be in mid-flow.
InitSeq ==
  /\ app_state = [graph |-> TRUE]
  /\ \E stored \in StoredSessions :
       session_store = [s \in SessionIds |-> IF s = "s1" THEN stored ELSE NoState]
  /\ req = [r \in ReqIds |-> IdleReq]
  /\ budget = MaxOracleSwitches

ChatBeginSeq(r, sid) ==
  /\ \A p \in ReqIds : req[p].pc # "running"
  /\ ChatBegin(r, sid)

NextSeq ==
  \E r \in ReqIds :
    \/ \E sid \in SessionIds : ChatBeginSeq(r, sid)
    \/ GraphStep(r, SeqOracles)
    \/ Respond(r)

SpecSeq == InitSeq /\ [][NextSeq]_vars

\* One chat request on a session, with oracles that may never stop naming a
\* worker or proposing a call.
NextLoop ==
  \/ \E sid \in SessionIds : ChatBeginSeq(1, sid)
  \/ GraphStep(1, LoopOracles)
  \/ Respond(1)

SpecLoop == InitSeq /\ [][NextLoop]_vars

\* The tool service: a worker's oracle has proposed one call, any of AllCalls,
\* and the call goes through.
InitTool ==
  /\ app_state = [graph |-> TRUE]
  /\ session_store =
       [s \in SessionIds |->
          IF s = "s1" THEN AppendUser(NewSession, "hello") ELSE NoState]
  /\ \E c \in AllCalls :
       req = [r \in ReqIds |->
                IF r = 1
                  THEN LET worker == WorkerOf(c.name)
                           wstate == llm_node(Entered(NewSession, worker), <<c>>)
                       IN InWorker(NewSession, worker, "tool_node",
                                   StepsTaken(NewSession, worker, wstate), wstate)
                  ELSE IdleReq]
  /\ budget = 0

NextTool == \E r \in ReqIds : ToolNode(r, AllOracles)

SpecTool == InitTool /\ [][NextTool]_vars

\* The final node of a tool-loop worker: the oracle has stopped, either at
\* once or after one call that the tool service answered with any of
\* ToolTexts.
FinalInputs(stored, worker) ==
  { llm_node(Entered(stored, worker), <<>>) } \cup
  { llm_node(
      [llm_node(Entered(stored, worker), <<Call(ToolOf(worker), "CUST001")>>)
         EXCEPT !.messages = Append(@, ToolMessage(FreshId(@), text, ToolOf(worker)))],
      <<>>) : text \in ToolTexts }

InitFinal ==
  /\ app_state = [graph |-> TRUE]
  /\ \E stored \in {NewSession, WithOffer, Rejected} :
       /\ session_store =
            [s \in SessionIds |->
               IF s = "s1" THEN AppendUser(stored, "hello") ELSE NoState]
       /\ \E worker \in Workers \ {"sales"} :
            \E wstate \in FinalInputs(stored, worker) :
              req = [r \in ReqIds |->
                       IF r = 1
                         THEN InWorker(stored, worker, "final_logic",
                                       StepsTaken(stored, worker, wstate), wstate)
                         ELSE IdleReq]
  /\ budget = 0

NextFinal == \E r \in ReqIds : FinalLogic(r) \/ WorkerEnd(r)

SpecFinal == InitFinal /\ [][NextFinal]_vars

\* The router alone, applied to every value the next_worker key may hold
\* when the conditional edge out of master is taken: the five tags of Router,
\* a tag outside them, and no key at all ("missing").
RouterTags == NextWorkers \cup {"collections", "missing"}

InitRoute ==
  /\ app_state = [graph |-> TRUE]
  /\ session_store = [s \in SessionIds |-> NoState]
  /\ \E stored \in StoredSessions, d \in MasterDecisions, tag \in RouterTags :
       req = [r \in ReqIds |->
                IF r = 1
                  THEN [IdleReq EXCEPT
                          !.pc = "running", !.node = "route_next", !.step = 1,
                          !.decides = 1,
                          !.state = [TurnStart(stored, d) EXCEPT !.next_worker = tag]]
                  ELSE IdleReq]
  /\ budget = 0

\* workflow.add_conditional_edges("master", route_next)
RouteNext(r) ==
  /\ MasterAt(r)
  /\ req[r].node = "route_next"
  /\ Upd(r, [req[r] EXCEPT !.node = route_next(req[r].state)])
  /\ UNCHANGED <<app_state, session_store, budget>>

NextRoute == \E r \in ReqIds : RouteNext(r)

SpecRoute == InitRoute /\ [][NextRoute]_vars

\* An Underwriting run on a session that holds an offer, from the point where
\* its oracle has proposed to upload the salary slip: the upload, what the
\* oracle proposes next, the final node and the return to the Master.
InitSlip ==
  /\ app_state = [graph |-> TRUE]
  /\ session_store =
       [s \in SessionIds |->
          IF s = "s1" THEN AppendUser(WithOffer, "hello") ELSE NoState]
  /\ \E c \in {x \in AllCalls : x.name = "upload_salary_slip"} :
       LET state == TurnStart(WithOffer, [NoDecision EXCEPT !.next_worker = "underwriting"])
           wstate == llm_node(fetch_credit_score(SubgraphInput("underwriting", state), "ok"),
                              <<c>>)
       IN req = [r \in ReqIds |->
                   IF r = 1
                     THEN [InWorker(WithOffer, "underwriting", "tool_node", 2, wstate)
                             EXCEPT !.state = state, !.decides = 1]
                     ELSE IdleReq]
  /\ budget = 1

NextSlip ==
  \E r \in ReqIds :
    \/ ToolNode(r, AllOracles)
    \/ LlmNode(r, AllOracles)
    \/ FinalLogic(r)
    \/ WorkerEnd(r)

SpecSlip == InitSlip /\ [][NextSlip]_vars

\* The same front door with every oracle answer and every failure open, and
\* oracles that may go on giving one answer.
NextWide ==
  \E r \in ReqIds :
    \/ \E sid \in SessionIds : ChatBeginSeq(r, sid)
    \/ GraphStep(r, AllOracles)
    \/ Respond(r)

SpecWide == InitSeq /\ [][NextWide]_vars

\* ------------------------------------------------------------------ claims
\* The call a worker's oracle proposed last and the text the tool service
\* answered it with, once the tool node has run.
ToolAnswered(r) ==
  LET msgs == req[r].wstate.messages
  IN /\ req[r].pc = "running"
     /\ Len(msgs) >= 2
     /\ msgs[Len(msgs)].type = "tool"
     /\ msgs[Len(msgs) - 1].type = "ai"
     /\ Len(msgs[Len(msgs) - 1].tool_calls) = 1
LastCall(r) == req[r].wstate.messages[Len(req[r].wstate.messages) - 1].tool_calls[1]
LastAnswer(r) == req[r].wstate.messages[Len(req[r].wstate.messages)].content

\* The text is a JSON reply carrying this decision and reason.
Decides(text, decision, reason) ==
  /\ ~JsonLoadsRaises(text)
  /\ JsonLoads(text).status = "ok"
  /\ JsonLoads(text).res_kind = "dict"
  /\ JsonLoads(text).result.decision = decision
  /\ JsonLoads(text).result.reason = reason

UnderwriteAnswered(r) ==
  /\ ToolAnswered(r)
  /\ LastCall(r).name = "underwrite_loan"
  /\ LastCall(r).customer_id \in CustomerIds

\* C6: for a known customer with a credit score below 700, underwrite_loan
\* answers reject / credit_score_below_700 whatever the amount, tenure, rate,
\* salary_provided and salary_slip_resource.
C6_LowScoreRejected ==
  \A r \in ReqIds :
    UnderwriteAnswered(r) /\ CUSTOMERS[LastCall(r).customer_id].credit_score < 700
      => Decides(LastAnswer(r), "reject", "credit_score_below_700")

\* C6 witness: CUST004 (score 690) asks an amount within the limit with a
\* salary and a slip given, and is rejected for the score.
C6_Witness ==
  \E r \in ReqIds :
    /\ UnderwriteAnswered(r)
    /\ LastCall(r).customer_id = "CUST004"
    /\ LastCall(r).requested_amount = 100000
    /\ LastCall(r).salary_provided = 200000
    /\ LastCall(r).salary_slip_resource = "resource://salary_slip"
    /\ Decides(LastAnswer(r), "reject", "credit_score_below_700")

WithinPreApproved(r) ==
  /\ UnderwriteAnswered(r)
  /\ CUSTOMERS[LastCall(r).customer_id].credit_score >= 700
  /\ LastCall(r).requested_amount
       <= CUSTOMERS[LastCall(r).customer_id].pre_approved_limit

\* C7: for a known customer with a credit score of at least 700, a requested
\* amount not above the pre-approved limit and a tenure of at least one
\* month, underwrite_loan answers approve / within_pre_approved_limit
\* whatever the salary and the salary slip.
C7_WithinLimitApproved ==
  \A r \in ReqIds :
    WithinPreApproved(r) /\ LastCall(r).tenure_months >= 1
      => Decides(LastAnswer(r), "approve", "within_pre_approved_limit")

\* C7 as stated, for every tenure: refuted by a tenure of 0 months, on which
\* compute_emi divides by zero and the tool answers an error.
C7_AnyTenureApproved ==
  \A r \in ReqIds :
    WithinPreApproved(r)
      => Decides(LastAnswer(r), "approve", "within_pre_approved_limit")

\* C7 witness: CUST001 asks exactly the limit of 300000 with no salary and no
\* slip, and is approved.
C7_Witness ==
  \E r \in ReqIds :
    /\ WithinPreApproved(r)
    /\ LastCall(r).customer_id = "CUST001"
    /\ LastCall(r).requested_amount = 300000
    /\ LastCall(r).tenure_months = 2
    /\ LastCall(r).salary_provided = NoneInt
    /\ LastCall(r).salary_slip_resource = "None"
    /\ Decides(LastAnswer(r), "approve", "within_pre_approved_limit")

\* The last ToolMessage of the worker run of request r, and whether there is
\* one.
HasToolMessage(r) == LastToolIndex(req[r].wstate.messages) # 0
LastToolMessage(r) == req[r].wstate.messages[LastToolIndex(req[r].wstate.messages)]

\* The Verification worker of request r has finalized on a verify_kyc reply
\* that carries these two flags.
KycFinalized(r, phone, address) ==
  /\ req[r].pc = "running"
  /\ req[r].worker = "verification"
  /\ req[r].wnode = "END"
  /\ HasToolMessage(r)
  /\ ~JsonLoadsRaises(LastToolMessage(r).content)
  /\ JsonLoads(LastToolMessage(r).content).kind = "dict"
  /\ JsonLoads(LastToolMessage(r).content).res_kind = "dict"
  /\ JsonLoads(LastToolMessage(r).content).result.phone_verified = phone
  /\ JsonLoads(LastToolMessage(r).content).result.address_verified = address

\* C4: Verification finalization maps the flags of the most recent
\* verify_kyc result to kyc_status: both true gives verified, exactly one
\* true gives pending, both false gives failed.
C4_KycStatusTable ==
  \A r \in ReqIds :
    /\ KycFinalized(r, "true", "true") => req[r].wstate.kyc_status = "verified"
    /\ KycFinalized(r, "true", "false") => req[r].wstate.kyc_status = "pending"
    /\ KycFinalized(r, "false", "true") => req[r].wstate.kyc_status = "pending"
    /\ KycFinalized(r, "false", "false") => req[r].wstate.kyc_status = "failed"

\* C4 witness: a run finalized on a reply with the phone flag true and the
\* address flag false, as pending.
C4_Witness ==
  \E r \in ReqIds :
    KycFinalized(r, "true", "false") /\ req[r].wstate.kyc_status = "pending"

IsPrefix(a, b) == Len(a) <= Len(b) /\ \A i \in 1..Len(a) : a[i] = b[i]

\* C1: when chat calls follow one another, the transcript stored for a
\* session never gets shorter and no stored entry is rewritten or removed,
\* whether a call is answered or aborts.
C1_TranscriptGrows ==
  [][\A s \in SessionIds :
       IsPrefix(session_store[s].messages, session_store'[s].messages)]_vars

\* C1 witness: on one session a call has aborted and a later call has been
\* answered, and the transcript holds both user messages and the reply.
C1_Witness ==
  \E r1, r2 \in ReqIds :
    /\ r1 < r2
    /\ req[r1].sid = req[r2].sid
    /\ req[r1].status = "500"
    /\ req[r2].status = "200"
    /\ Len(session_store[req[r1].sid].messages) >= 3

\* C2: at most one Master invocation is in flight for a session id.
C2_OneInFlightPerSession ==
  \A r1, r2 \in ReqIds :
    r1 # r2 /\ req[r1].pc = "running" /\ req[r2].pc = "running"
      => req[r1].sid # req[r2].sid

\* C3: a step of a chat request (creation, append, graph step, store, abort)
\* leaves the state stored for every other session id as it is.
C3_SessionsIndependent ==
  [][\A r \in ReqIds :
       req'[r] # req[r] =>
         \A s \in SessionIds \ {req'[r].sid} : session_store'[s] = session_store[s]]_vars

\* C3 witness: a request for one session has been answered and stored while
\* a request for the other session is in flight.
C3_Witness ==
  \E r1, r2 \in ReqIds :
    /\ req[r1].sid # req[r2].sid
    /\ req[r1].status = "200"
    /\ req[r2].pc = "running"
    /\ Len(session_store[req[r1].sid].messages) >= 2
    /\ session_store[req[r2].sid] # NoState

\* The Verification worker of request r is at its final node and the last
\* ToolMessage holds text that is no JSON: the error text of a failed call.
KycCallFailed(r) ==
  /\ req[r].pc = "running"
  /\ req[r].worker = "verification"
  /\ req[r].wnode = "final_logic"
  /\ HasToolMessage(r)
  /\ LastToolMessage(r).name = "verify_kyc"
  /\ JsonLoadsRaises(LastToolMessage(r).content)

\* C5: when the verify_kyc call has failed, the final node of Verification
\* does not raise: the run reaches its end with kyc_status failed and with
\* kyc_result the raw-text wrapper of the payload.
C5_FailedCallFinalizes ==
  [][\A r \in ReqIds :
       KycCallFailed(r) /\ req'[r] # req[r] =>
         /\ req'[r].pc = "running"
         /\ req'[r].wnode = "END"
         /\ req'[r].wstate.kyc_status = "failed"
         /\ req'[r].wstate.kyc_result.kind = "dict"
         /\ req'[r].wstate.kyc_result.raw = LastToolMessage(r).content.text]_vars

\* C8: while the Sanction worker runs on a state whose underwriting_status is
\* reject, it has issued no tool call, and at its end sanction_letter_status
\* is failed.
C8_RejectedNeverCallsTool ==
  \A r \in ReqIds :
    /\ req[r].pc = "running"
    /\ req[r].worker = "sanction"
    /\ req[r].wstate.underwriting_status = "reject"
    => /\ req[r].tool_runs = 0
       /\ req[r].wnode = "END" => req[r].wstate.sanction_letter_status = "failed"

\* C9: a step of the master node that changes max_interest_rate while an
\* offer exists leaves negotiated_offer cleared, so the input of every worker
\* graph that follows holds no offer.
C9_RateChangeClearsOffer ==
  [][\A r \in ReqIds :
       /\ req[r].pc = "running" /\ req[r].worker = "none" /\ req[r].node = "master"
       /\ req'[r].pc = "running"
       /\ req[r].state.negotiated_offer.kind = "offer"
       /\ req'[r].state.max_interest_rate # req[r].state.max_interest_rate
       => /\ req'[r].state.negotiated_offer = EmptyOffer
          /\ \A w \in Workers \ {"verification"} :
               SubgraphInput(w, req'[r].state).negotiated_offer = EmptyOffer]_vars

\* C9 witness: the master node has just changed the rate of a session that
\* held an offer, and the offer is gone.
C9_Witness ==
  \E r \in ReqIds :
    /\ req[r].pc = "running"
    /\ req[r].renegotiated
    /\ req[r].state.max_interest_rate = 24
    /\ req[r].state.negotiated_offer = EmptyOffer

\* C10: no run of a tool-call loop ends in an exception the loop let escape:
\* a chat request is never aborted by the step bound of the graph engine
\* striking inside a worker's llm_node or tool_node.
C10_LoopNeverEscapes ==
  \A r \in ReqIds :
    req[r].status = "500" /\ req[r].error = "GraphRecursionError"
      => req[r].raised_in \notin {"llm_node", "tool_node"}

\* A request under way has a next step: it stands at a node of the master
\* graph or of the worker graph it is in.
CanStep(r) ==
  IF req[r].worker = "none"
    THEN req[r].node \in Workers \cup {"master", "END"}
    ELSE req[r].wnode \in {"fetch_customer_info", "sales_llm_node",
                            "fetch_credit_score", "llm_node", "tool_node",
                            "final_logic", "END"}

\* How far the run of a request has come: the steps of the master graph, and
\* within a step the steps of the worker graph, then the return to master.
Progress(q) ==
  q.step * (RecursionLimit + 3)
    + (IF q.worker # "none" THEN q.wstep
       ELSE IF q.node = "master" THEN RecursionLimit + 2 ELSE 0)

\* C11: within one chat request the master node runs at most 20 times, and
\* the request terminates, whatever the oracles go on answering: the run
\* never goes past the step bound, a request under way always has a next
\* step, and each step either answers the request or carries the run forward.
C11_MasterCapped ==
  /\ [](\A r \in ReqIds :
          /\ req[r].decides <= 20
          /\ req[r].step <= RecursionLimit /\ req[r].wstep <= RecursionLimit
          /\ req[r].pc = "running" => CanStep(r))
  /\ [][\A r \in ReqIds :
          req[r].pc = "running" /\ req'[r] # req[r] =>
            \/ req'[r].pc = "done"
            \/ req'[r].pc = "running" /\ Progress(req'[r]) > Progress(req[r])]_vars

\* C11 witness: an oracle naming sales and verification in turn has used up
\* the steps of the run; the master node is about to be stopped.
C11_Witness ==
  \E r \in ReqIds :
    /\ req[r].pc = "running"
    /\ req[r].tail = "alternate"
    /\ req[r].node = "master"
    /\ req[r].step = RecursionLimit
    /\ req[r].decides = 10

\* The Underwriting worker of request r is at its final node, within the step
\* bound, after a run in which the oracle proposed no call, or the call
\* failed, or the payload cannot be parsed.
UnderwritingDegraded(r) ==
  /\ req[r].pc = "running"
  /\ req[r].worker = "underwriting"
  /\ req[r].wnode = "final_logic"
  /\ ~OutOfSteps(req[r].wstep)
  /\ \/ ~HasToolMessage(r)
     \/ JsonLoadsRaises(LastToolMessage(r).content)

\* C12: when the underwriting call failed, or its payload cannot be parsed,
\* or the oracle proposed no call, the final node of Underwriting does not
\* raise: the run reaches its end with a status written, and the chat request
\* is not aborted.
C12_DegradedRunFinalizes ==
  [][\A r \in ReqIds :
       UnderwritingDegraded(r) /\ req'[r] # req[r] =>
         /\ req'[r].pc = "running"
         /\ req'[r].wnode = "END"
         /\ req'[r].wstate.underwriting_status # "missing"]_vars

\* An entry fit for the public transcript: a user message, or an assistant
\* message that carries no proposed tool call.
PublicEntry(m) == m.type = "human" \/ (m.type = "ai" /\ m.tool_calls = <<>>)

\* The entries a step of request r added to the public transcript, the
\* messages channel of the Master's state.
Added(r) ==
  { req'[r].state.messages[i] :
      i \in (Len(req[r].state.messages) + 1)..Len(req'[r].state.messages) }

\* C13: no step of a chat request adds to the public transcript a tool-result
\* message or a message carrying proposed tool calls: every entry added is a
\* user message or an assistant message without tool calls.
C13_TranscriptPublicOnly ==
  [][\A r \in ReqIds :
       req[r].pc = "running" /\ req'[r].pc = "running" =>
         \A m \in Added(r) : PublicEntry(m)]_vars

\* The private scratchpad channel of a worker.
Scratchpad(worker) ==
  CASE worker = "sales" -> "sales_messages"
    [] worker = "verification" -> "verification_messages"
    [] worker = "underwriting" -> "underwriting_messages"
    [] OTHER -> "sanction_messages"

\* C14: a step of a worker's tool-call loop (the oracle's reply, the tool
\* results) appends to that worker's own scratchpad and to no other channel:
\* the shared messages channel and the scratchpads of the other workers are
\* left as they were.
C14_LoopWritesOwnScratchpad ==
  [][\A r \in ReqIds :
       /\ req[r].pc = "running"
       /\ req[r].wnode \in {"llm_node", "tool_node"}
       /\ req'[r].pc = "running"
       /\ req'[r] # req[r]
       => LET w == req[r].worker IN
          /\ Len(req'[r].wstate[Scratchpad(w)]) > Len(req[r].wstate[Scratchpad(w)])
          /\ req'[r].wstate.messages = req[r].wstate.messages
          /\ \A v \in Workers \ {w} :
               req'[r].wstate[Scratchpad(v)] = req[r].wstate[Scratchpad(v)]]_vars

\* C15: the run of a worker adds exactly one entry to the public transcript,
\* an assistant message that bears the worker's name: when the worker graph
\* has reached its end and its state is merged into the Master's, the
\* transcript is longer by that one entry.
C15_OneSummaryPerRun ==
  [][\A r \in ReqIds :
       /\ req[r].pc = "running"
       /\ req[r].worker \in Workers
       /\ req[r].wnode = "END"
       /\ req'[r] # req[r]
       => /\ Added(r) # {}
          /\ Len(req'[r].state.messages) = Len(req[r].state.messages) + 1
          /\ \A m \in Added(r) : m.type = "ai" /\ m.name = req[r].worker]_vars

\* The status field of a tool-loop worker.
StatusField(worker) ==
  CASE worker = "verification" -> "kyc_status"
    [] worker = "underwriting" -> "underwriting_status"
    [] OTHER -> "sanction_letter_status"

\* C16: in a run of Verification, Underwriting or Sanction the steps of the
\* tool-call loop leave the worker's status field alone, the final node runs
\* once, and no run reaches its end without the status written: at the end of
\* the run the field holds a value.
C16_StatusWrittenOnceByFinalize ==
  /\ [](\A r \in ReqIds :
          /\ req[r].pc = "running"
          /\ req[r].worker \in Workers \ {"sales"}
          /\ req[r].wnode = "END"
          => /\ req[r].finals = 1
             /\ req[r].wstate[StatusField(req[r].worker)] # "missing")
  /\ [][\A r \in ReqIds :
          /\ req[r].pc = "running"
          /\ req[r].wnode \in {"llm_node", "tool_node"}
          /\ req'[r].pc = "running"
          => req'[r].wstate[StatusField(req[r].worker)]
               = req[r].wstate[StatusField(req[r].worker)]]_vars

LetterCalls(msgs) ==
  Cardinality({ i \in 1..Len(msgs) :
                  msgs[i].type = "tool" /\ msgs[i].name = "generate_sanction_letter" })

\* C18: within a run of the Sanction worker generate_sanction_letter is
\* executed at most once, and only when underwriting_status is approve,
\* whatever the oracles answer.
C18_LetterOnlyOnApproval ==
  \A r \in ReqIds :
    req[r].pc = "running" /\ req[r].worker = "sanction" =>
      LET n == LetterCalls(req[r].wstate.messages) - LetterCalls(req[r].state.messages)
      IN /\ n <= 1
         /\ n > 0 => req[r].wstate.underwriting_status = "approve"

\* The most recent tool payload of request r's worker holds both keys of the
\* letter, neither of them null.
LetterInPayload(r) ==
  /\ HasToolMessage(r)
  /\ ParsedTool(LastToolMessage(r)).res_kind = "dict"
  /\ ParsedTool(LastToolMessage(r)).result.sanction_letter_resource
       \notin {"missing", "None"}
  /\ ParsedTool(LastToolMessage(r)).result.sanction_letter_path
       \notin {"missing", "None"}

\* C19: at the end of every run of the Sanction worker sanction_letter_status
\* is generated when the most recent tool payload holds both
\* sanction_letter_resource and sanction_letter_path, not null, and failed in
\* every other case.
C19_LetterStatusTable ==
  \A r \in ReqIds :
    req[r].pc = "running" /\ req[r].worker = "sanction" /\ req[r].wnode = "END" =>
      req[r].wstate.sanction_letter_status
        = IF LetterInPayload(r) THEN "generated" ELSE "failed"

OwnRun(q) ==
  [q.wstate EXCEPT !.messages =
     SubSeq(@, Len(q.state.messages) + 1, Len(@))]

\* C22: the final node of a worker takes its result only from a tool result
\* of the present run: when the last tool result in the state was left by an
\* earlier run, the final node ends as it does on the messages of the present
\* run alone.
C22_FinalizeReadsOwnRun ==
  [][\A r \in ReqIds :
       /\ req[r].pc = "running"
       /\ req[r].wnode = "final_logic"
       /\ LastToolIndex(req[r].wstate.messages) \in 1..Len(req[r].state.messages)
       /\ req'[r].pc = "running"
       /\ req'[r] # req[r]
       => LET own == final_status_node(req[r].worker, OwnRun(req[r]))
              f == StatusField(req[r].worker)
          IN /\ req'[r].wstate[f] = own[f]
             /\ req'[r].wstate.kyc_result = own.kyc_result
             /\ req'[r].wstate.underwriting_result = own.underwriting_result]_vars

\* C23: flow_stage mirrors the worker last dispatched.  A step of the master
\* node that names a worker sets flow_stage to that worker's stage
\* (negotiation for sales), one that names none leaves flow_stage as it was,
\* and no other step of a request changes it.
C23_StageMirrorsDispatch ==
  [][\A r \in ReqIds :
       req[r].pc = "running" /\ req'[r].pc = "running" =>
         LET q == req[r]
             p == req'[r]
             named == p.state.next_worker
         IN p.state.flow_stage =
              IF q.worker = "none" /\ q.node = "master" /\ named \in Workers
                THEN (IF named = "sales" THEN "negotiation" ELSE named)
                ELSE q.state.flow_stage]_vars

\* The replies of the Master in a transcript: the assistant entries that hold
\* a response_to_user.
MasterReplies(msgs) ==
  Cardinality({ i \in 1..Len(msgs) :
                  /\ msgs[i].type = "ai"
                  /\ msgs[i].tool_calls = <<>>
                  /\ msgs[i].content = PlainText(NoDecision.response_to_user) })

\* C24: every step of the master node appends exactly one entry to the public
\* transcript, an assistant message holding the oracle's response_to_user,
\* and leaves the entries before it alone; so an invocation that has run the
\* master node k times has added k replies of the Master, and the state it
\* stores on a normal return holds k more of them than the state it began on.
C24_OneReplyPerDecision ==
  /\ [][\A r \in ReqIds :
          LET q == req[r]
              p == req'[r]
          IN /\ q.pc = "running" /\ q.worker = "none" /\ q.node = "master"
                /\ p.pc = "running"
                => /\ Len(p.state.messages) = Len(q.state.messages) + 1
                   /\ IsPrefix(q.state.messages, p.state.messages)
                   /\ MasterReplies(p.state.messages)
                        = MasterReplies(q.state.messages) + 1
                   /\ p.decides = q.decides + 1
             /\ q.pc = "running" /\ p.pc = "running"
                => MasterReplies(p.state.messages) - p.decides
                     = MasterReplies(q.state.messages) - q.decides
             /\ q.pc = "running" /\ p.status = "200"
                => MasterReplies(session_store'[q.sid].messages)
                     = MasterReplies(session_store[q.sid].messages) + q.decides]_vars

\* C24 witness: a chat request has run the master node three times, with two
\* worker runs between, and is about to return normally with three replies
\* more than the stored state holds.
C24_Witness ==
  \E r \in ReqIds :
    /\ req[r].pc = "running"
    /\ req[r].worker = "none"
    /\ req[r].node = "END"
    /\ req[r].decides = 3
    /\ MasterReplies(req[r].state.messages)
         = MasterReplies(session_store[req[r].sid].messages) + 3

\* The keys on which two states differ.
Changed(a, b) == { k \in DOMAIN a : a[k] # b[k] }

\* The fields each component may write.
OwnFields(component) ==
  CASE component = "master" ->
         {"messages", "next_worker", "flow_stage", "customer_id",
          "requested_amount", "preferred_tenure_months", "max_interest_rate",
          "negotiated_offer"}
    [] component = "sales" -> {"customer_info", "negotiated_offer"}
    [] component = "verification" -> {"kyc_status", "kyc_result"}
    [] component = "underwriting" ->
         {"credit_score", "salary_slip_resource", "underwriting_input",
          "underwriting_result", "underwriting_status"}
    [] OTHER ->
         {"sanction_letter_resource", "sanction_letter_path",
          "sanction_letter_status"}

\* C25: each component writes only its own fields.  A step of the master node
\* changes only the transcript, next_worker, flow_stage and the fields it
\* extracted, and with nothing extracted it leaves customer_id, the three
\* loan inputs and negotiated_offer as they were; the run of a worker, merged
\* into the Master's state at its end, changes only that worker's fields.
C25_ComponentsWriteOwnFields ==
  /\ [](\A r \in ReqIds : \A w \in NextWorkers :
          req[r].pc = "running" =>
            Changed(req[r].state,
                    master_llm_node(req[r].state,
                                    [NoDecision EXCEPT !.next_worker = w]))
              \subseteq {"messages", "next_worker", "flow_stage"})
  /\ [][\A r \in ReqIds :
          LET q == req[r]
              p == req'[r]
          IN /\ q.pc = "running" /\ q.worker = "none" /\ q.node = "master"
                /\ p.pc = "running"
                => Changed(q.state, p.state) \subseteq OwnFields("master")
             /\ q.pc = "running" /\ q.worker \in Workers /\ p.pc = "running"
                => /\ Changed(q.state, p.state) \subseteq OwnFields(q.worker)
                   /\ p.worker = q.worker
                      => Changed(SubgraphInput(q.worker, q.state), p.wstate)
                           \subseteq OwnFields(q.worker)]_vars

\* Request r stands at a pre-fetch stage with a customer id to ask for.
AtPreFetch(r) ==
  /\ req[r].pc = "running"
  /\ req[r].wnode \in {"fetch_customer_info", "fetch_credit_score"}
  /\ req[r].wstate.customer_id # "missing"

\* C26: the pre-fetch stages are not fatal.  When the get_customer_info call
\* of Negotiation or the get_credit_score call of Underwriting fails (the
\* connection is refused, the call times out, the tool answers with an
\* error), the stage stores an error marker in customer_info or credit_score
\* and the worker goes on to its next stage; the request is not aborted.
C26_PreFetchNotFatal ==
  [][\A r \in ReqIds :
       AtPreFetch(r) /\ req'[r] # req[r] =>
         /\ req'[r].pc = "running"
         /\ req'[r].worker = req[r].worker
         /\ req[r].wnode = "fetch_customer_info" =>
              /\ req'[r].wnode = "sales_llm_node"
              /\ req'[r].wstate.customer_info.kind \in {"customer", "error"}
              /\ budget' < budget \/ req[r].wstate.customer_id \notin CustomerIds
                   => req'[r].wstate.customer_info.kind = "error"
         /\ req[r].wnode = "fetch_credit_score" =>
              /\ req'[r].wnode = "llm_node"
              /\ req'[r].wstate.credit_score.kind \in {"int", "error"}
              /\ budget' < budget \/ req[r].wstate.customer_id \notin CustomerIds
                   => req'[r].wstate.credit_score.kind = "error"]_vars

\* C26 witness: the get_credit_score call of an Underwriting run failed for a
\* known customer, the marker is stored and the run has gone on to its
\* oracle and beyond.
C26_Witness ==
  \E r \in ReqIds :
    /\ req[r].pc = "running"
    /\ req[r].worker = "underwriting"
    /\ req[r].wnode \in {"tool_node", "final_logic"}
    /\ req[r].wstate.customer_id \in CustomerIds
    /\ req[r].wstate.credit_score.kind = "error"

\* The Underwriting run of request r stands at its final node and the last
\* tool result is that of an underwrite_loan call of this run.
UnderwriteFinalizing(r) ==
  LET msgs == req[r].wstate.messages
      i == LastToolIndex(msgs)
  IN /\ req[r].pc = "running"
     /\ req[r].worker = "underwriting"
     /\ req[r].wnode = "final_logic"
     /\ i > Len(req[r].state.messages) + 1
     /\ msgs[i].name = "underwrite_loan"
     /\ msgs[i - 1].type = "ai"
     /\ Len(msgs[i - 1].tool_calls) = 1

\* C27: after the final node of Underwriting the audit record agrees with the
\* last underwrite_loan call of the run: underwriting_input holds the
\* customer_id, requested_amount, tenure_months and annual_rate sent in that
\* call, underwriting_result its payload, underwriting_status the payload's
\* decision.
C27_AuditRecordMatchesCall ==
  [][\A r \in ReqIds :
       UnderwriteFinalizing(r) /\ req'[r].pc = "running" /\ req'[r] # req[r] =>
         LET msgs == req[r].wstate.messages
             i == LastToolIndex(msgs)
             call == msgs[i - 1].tool_calls[1]
             result == ParsedTool(msgs[i]).result
         IN /\ req'[r].wstate.underwriting_input =
                 UnderwritingInput("dict", call.customer_id, call.requested_amount,
                                   call.tenure_months, call.annual_rate)
            /\ req'[r].wstate.underwriting_result = UnderwritingResult("dict", result)
            /\ req'[r].wstate.underwriting_status = Get(result.decision)]_vars

\* The decision a tool text carries, "none" for a text that carries none.
DecisionOf(text) ==
  IF JsonLoadsRaises(text) \/ JsonLoads(text).res_kind # "dict" THEN "none"
  ELSE Get(JsonLoads(text).result.decision)

\* The call the decision table prescribes after require_salary_slip: the same
\* call with the resource upload_salary_slip returned.
WithSlip(c) == [c EXCEPT !.salary_slip_resource = "resource://salary_slip"]

\* The decision table followed from the call just answered ends in approve
\* or reject within two underwrite_loan calls.
TerminalWithinTwo(r) ==
  \/ DecisionOf(LastAnswer(r)) \in {"approve", "reject"}
  \/ /\ DecisionOf(LastAnswer(r)) = "require_salary_slip"
     /\ DecisionOf(underwrite_loan(WithSlip(LastCall(r)))) \in {"approve", "reject"}

\* C28: underwrite_loan called with a non-empty salary_slip_resource never
\* answers require_salary_slip; so, for a known customer and a tenure of at
\* least one month, the decision table (underwrite_loan, on
\* require_salary_slip the upload and underwrite_loan again with the returned
\* resource) ends in approve or reject after at most two underwrite_loan
\* calls.
C28_SlipEndsTheLoop ==
  \A r \in ReqIds :
    UnderwriteAnswered(r) =>
      /\ LastCall(r).salary_slip_resource \notin {"None", ""}
           => DecisionOf(LastAnswer(r)) # "require_salary_slip"
      /\ LastCall(r).tenure_months >= 1 => TerminalWithinTwo(r)

\* C28 as stated, for every call: refuted by a tenure of 0 months, on which
\* the call that carries the slip divides by zero and answers an error.
C28_AnyCallEndsTheLoop ==
  \A r \in ReqIds :
    UnderwriteAnswered(r) =>
      /\ LastCall(r).salary_slip_resource \notin {"None", ""}
           => DecisionOf(LastAnswer(r)) # "require_salary_slip"
      /\ TerminalWithinTwo(r)

\* C28 witness: CUST001 asks 400000, above the limit of 300000, with no salary
\* and no slip, and is asked for the slip; the call repeated with the slip is
\* decided.
C28_Witness ==
  \E r \in ReqIds :
    /\ UnderwriteAnswered(r)
    /\ LastCall(r).customer_id = "CUST001"
    /\ LastCall(r).requested_amount = 400000
    /\ LastCall(r).tenure_months = 2
    /\ DecisionOf(LastAnswer(r)) = "require_salary_slip"
    /\ DecisionOf(underwrite_loan(WithSlip(LastCall(r)))) \in {"approve", "reject"}

\* C29: the first chat request for an unseen session id creates a state with
\* flow_stage start, kyc_status pending, four empty scratchpads and an empty
\* transcript, to which the user's message is then appended; and when an
\* invocation returns normally, the state stored for the id is exactly the
\* final state the invocation returned.
C29_SessionLifecycle ==
  [][\A r \in ReqIds :
       LET q == req[r]
           p == req'[r]
       IN /\ q.pc # "running" /\ p.pc = "running" /\ session_store[p.sid] = NoState
             => LET created == session_store'[p.sid] IN
                /\ created.flow_stage = "start"
                /\ created.kyc_status = "pending"
                /\ created.messages = <<HumanMessage(1, UserText(r))>>
                /\ \A w \in Workers : created[Scratchpad(w)] = <<>>
                /\ p.state = created
          /\ q.pc = "running" /\ p.status = "200"
             => /\ q.node = "END"
                /\ session_store'[q.sid] = q.state
                /\ \A s \in SessionIds \ {q.sid} :
                     session_store'[s] = session_store[s]]_vars

\* C29 witness: the first request for the unseen id s2 ran Verification and
\* returned normally; the state stored for s2 is the one it returned.
C29_Witness ==
  \E r \in ReqIds :
    /\ req[r].status = "200"
    /\ req[r].sid = "s2"
    /\ session_store["s2"].flow_stage = "verification"
    /\ session_store["s2"].kyc_result.kind = "dict"
    /\ Len(session_store["s2"].messages) >= 4

\* The user message of request r is in the transcript.
HoldsUserMessage(msgs, r) ==
  \E i \in 1..Len(msgs) :
    msgs[i].type = "human" /\ msgs[i].content = PlainText(UserText(r))

\* C30: when two chat requests for one session id overlap, no update is lost:
\* once both have returned normally the stored transcript holds the user
\* messages of both and the Master's replies of both, and no store ever made
\* the stored transcript shorter.
C30_NoLostUpdate ==
  /\ [](\A r1, r2 \in ReqIds :
          /\ r1 # r2
          /\ req[r1].status = "200" /\ req[r2].status = "200"
          /\ req[r1].sid = req[r2].sid
          => LET msgs == session_store[req[r1].sid].messages
             IN /\ HoldsUserMessage(msgs, r1)
                /\ HoldsUserMessage(msgs, r2)
                /\ MasterReplies(msgs) >= 2)
  /\ [][\A s \in SessionIds :
          Len(session_store'[s].messages) >= Len(session_store[s].messages)]_vars

\* C31: a Negotiation run dispatched with customer_id and requested_amount
\* set is not aborted and ends with a negotiated_offer stored, also when
\* preferred_tenure_months or max_interest_rate was never supplied.
C31_SalesRunsWithoutTerms ==
  [][\A r \in ReqIds :
       /\ req[r].pc = "running"
       /\ req[r].worker = "sales"
       /\ req[r].state.customer_id # "missing"
       /\ req[r].state.requested_amount # NoneInt
       /\ req'[r] # req[r]
       => /\ req'[r].pc = "running"
          /\ req'[r].wnode = "END" => req'[r].wstate.negotiated_offer.kind = "offer"]_vars

\* The last tool result of request r's worker is a reply of
\* generate_sanction_letter that carries the letter: resource and path.
LetterReturned(r) ==
  /\ HasToolMessage(r)
  /\ LastToolMessage(r).name = "generate_sanction_letter"
  /\ ParsedTool(LastToolMessage(r)).res_kind = "dict"
  /\ ParsedTool(LastToolMessage(r)).result.resource # "missing"
  /\ ParsedTool(LastToolMessage(r)).result.path # "missing"

\* C32: when generate_sanction_letter succeeded, answering with the resource
\* and path of the letter, the Sanction run ends with sanction_letter_status
\* generated and with sanction_letter_resource and sanction_letter_path equal
\* to the resource and path returned.
C32_LetterRecorded ==
  \A r \in ReqIds :
    /\ req[r].pc = "running"
    /\ req[r].worker = "sanction"
    /\ req[r].wnode = "END"
    /\ LetterReturned(r)
    => LET result == ParsedTool(LastToolMessage(r)).result
       IN /\ req[r].wstate.sanction_letter_status = "generated"
          /\ req[r].wstate.sanction_letter_resource = result.resource
          /\ req[r].wstate.sanction_letter_path = result.path

\* The positions, among the messages of the present run of request r's
\* worker, of the replies of a successful upload_salary_slip that an
\* underwrite_loan call followed.
SlipUploads(r) ==
  LET msgs == req[r].wstate.messages
  IN { i \in (Len(req[r].state.messages) + 1)..Len(msgs) :
         /\ msgs[i].type = "tool"
         /\ msgs[i].name = "upload_salary_slip"
         /\ ParsedTool(msgs[i]).res_kind = "dict"
         /\ ParsedTool(msgs[i]).result.resource # "missing"
         /\ \E j \in (i + 1)..Len(msgs) :
              msgs[j].type = "tool" /\ msgs[j].name = "underwrite_loan" }

\* C33: at the end of an Underwriting run in which upload_salary_slip
\* succeeded and underwrite_loan was called after it, salary_slip_resource
\* holds the resource reference upload_salary_slip returned.
C33_SlipResourceRecorded ==
  \A r \in ReqIds :
    /\ req[r].pc = "running"
    /\ req[r].worker = "underwriting"
    /\ req[r].wnode = "END"
    => \A i \in SlipUploads(r) :
         req[r].wstate.salary_slip_resource
           = ParsedTool(req[r].wstate.messages[i]).result.resource

\* C34: an invocation that aborts (the step bound, an exception in a node)
\* leaves for its session the state before the request plus the one user
\* message appended, and the caller gets an error.  When the request begins
\* the stored state becomes the state before (a new session's for an unseen
\* id) with the user's message appended; no step of the run changes the
\* store; the step that aborts leaves the store as it is and answers 500.
C34_AbortKeepsStoredState ==
  [][\A r \in ReqIds :
       LET q == req[r]
           p == req'[r]
       IN /\ q.pc # "running" /\ p.pc = "running"
             => session_store' =
                  [session_store EXCEPT ![p.sid] =
                     AppendUser(IF @ = NoState THEN NewSession ELSE @, UserText(r))]
          /\ q.pc = "running" /\ p.pc = "running"
             => session_store' = session_store
          /\ q.pc = "running" /\ p.pc = "done" /\ q.node # "END"
             => /\ session_store' = session_store
                /\ p.status = "500"
                /\ p.response = "missing"]_vars

\* C34 witness: the first request for s2 was aborted by the final node of a
\* worker, after the Master had written its decision; the state kept for s2
\* is the new session's with the user's message.
C34_Witness ==
  \E r \in ReqIds :
    /\ req[r].status = "500"
    /\ req[r].raised_in = "final_logic"
    /\ req[r].sid = "s2"
    /\ session_store["s2"] = AppendUser(NewSession, UserText(r))

\* The call just answered is an underwrite_loan call for a known customer
\* with a credit score of at least 700.
ScoredCall(r) ==
  /\ UnderwriteAnswered(r)
  /\ CUSTOMERS[LastCall(r).customer_id].credit_score >= 700

\* The two rows of the decision table that need no EMI: an amount above twice
\* the pre-approved limit is rejected for the amount; an amount above the
\* limit and not above twice the limit, with neither salary_slip_resource nor
\* salary_provided, asks for the salary slip.
AmountRows(r) ==
  LET c == LastCall(r)
      pre_limit == CUSTOMERS[c.customer_id].pre_approved_limit
  IN /\ c.requested_amount > 2 * pre_limit
          => Decides(LastAnswer(r), "reject", "amount_exceeds_2x_pre_approved")
     /\ ( /\ c.requested_amount > pre_limit
          /\ c.requested_amount <= 2 * pre_limit
          /\ c.salary_slip_resource \in {"None", ""}
          /\ c.salary_provided = NoneInt )
          => Decides(LastAnswer(r), "require_salary_slip", "salary_slip_required")

\* C35: for a known customer with a score of at least 700 the two rows above
\* hold for every input, and every input with a tenure of at least one month
\* yields exactly one of approve, reject and require_salary_slip.
C35_DecisionTotal ==
  \A r \in ReqIds :
    ScoredCall(r) =>
      /\ AmountRows(r)
      /\ LastCall(r).tenure_months >= 1
           => DecisionOf(LastAnswer(r)) \in {"approve", "reject", "require_salary_slip"}

\* C35 as stated, for every input: refuted by a tenure of 0 months with an
\* amount within the limit, on which compute_emi divides by zero and the tool
\* answers an error that carries no decision.
C35_DecisionTotalAnyTenure ==
  \A r \in ReqIds :
    ScoredCall(r) =>
      /\ AmountRows(r)
      /\ DecisionOf(LastAnswer(r)) \in {"approve", "reject", "require_salary_slip"}

\* C35 witness: CUST001 (score 745, limit 300000) asks 1200000 with a salary
\* and a slip given and is rejected for the amount.
C35_Witness ==
  \E r \in ReqIds :
    /\ ScoredCall(r)
    /\ LastCall(r).customer_id = "CUST001"
    /\ LastCall(r).requested_amount = 1200000
    /\ LastCall(r).salary_provided = 200000
    /\ LastCall(r).salary_slip_resource = "resource://salary_slip"
    /\ Decides(LastAnswer(r), "reject", "amount_exceeds_2x_pre_approved")

\* The newest entry of a transcript.
Newest(msgs) == msgs[Len(msgs)]

\* C36: a step of the master node that ends the run has just appended the
\* reply of that decision as the newest entry of the public transcript and
\* has set next_worker to none; the run then stays as it is until
\* chat_endpoint answers, and the answer is the text of that entry, which is
\* the newest entry of the transcript stored for the session, whose
\* next_worker is none.
C36_ResponseIsLastReply ==
  [][\A r \in ReqIds :
       LET q == req[r]
           p == req'[r]
       IN /\ ( /\ q.pc = "running" /\ q.node = "master" /\ q.worker = "none"
               /\ p.pc = "running" /\ p.node = "END" )
             => /\ p.decides = q.decides + 1
                /\ p.state.messages = Append(q.state.messages, Newest(p.state.messages))
                /\ Newest(p.state.messages).type = "ai"
                /\ Newest(p.state.messages).tool_calls = <<>>
                /\ Newest(p.state.messages).content = PlainText(NoDecision.response_to_user)
                /\ p.state.next_worker = "none"
          /\ q.pc = "running" /\ q.node = "END" /\ p # q
             => /\ p.status = "200"
                /\ p.response = Newest(q.state.messages).content.text
                /\ p.response = NoDecision.response_to_user
                /\ session_store'[q.sid].messages = q.state.messages
                /\ session_store'[q.sid].next_worker = "none"
          /\ q.pc = "running" /\ p.status = "200" => q.node = "END"]_vars

\* C36 witness: the first turn of session s2, in which a worker ran between
\* two decisions of the Master, has been answered with the reply, and the
\* stored transcript ends with the second reply.
C36_Witness ==
  \E r \in ReqIds :
    /\ req[r].status = "200"
    /\ req[r].sid = "s2"
    /\ req[r].response = NoDecision.response_to_user
    /\ MasterReplies(session_store[req[r].sid].messages) = 2
    /\ Len(session_store[req[r].sid].messages) >= 4
    /\ Newest(session_store[req[r].sid].messages).content
         = PlainText(NoDecision.response_to_user)
    /\ session_store[req[r].sid].next_worker = "none"

\* C37: while no compiled graph is available, a chat request that arrives is
\* answered 503 with no reply text and leaves session_store as it was, so no
\* session is ever created; and 503 is answered in no other case.
C37_NoGraphNoSession ==
  /\ [](~app_state.graph => \A s \in SessionIds : session_store[s] = NoState)
  /\ [][\A r \in ReqIds :
          LET q == req[r]
              p == req'[r]
          IN /\ (~app_state.graph /\ p # q)
                => /\ q.pc = "idle"
                   /\ p.pc = "done"
                   /\ p.status = "503"
                   /\ p.response = "missing"
                   /\ session_store' = session_store
             /\ (p.status = "503" /\ q.status # "503") => ~app_state.graph]_vars

\* C37 witness: the tool service was unreachable at startup, every request
\* has been rejected with 503, the last one on session s2, and no session
\* exists.
C37_Witness ==
  /\ ~app_state.graph
  /\ \A r \in ReqIds : req[r].status = "503"
  /\ req[MaxRequests].sid = "s2"
  /\ \A s \in SessionIds : session_store[s] = NoState

====
